---- MODULE Spec2Model ----
(***************************************************************************)
(* A model of src/main.py: the two FastAPI handlers check_order_fraud and  *)
(* check_return, run by a pool of worker threads that share one sqlite3    *)
(* connection and ONE cursor (module globals conn and cursor).             *)
(*                                                                         *)
(* Strings are sequences of one-character strings.  A statement on the     *)
(* shared cursor (execute, fetchone, commit) is one atomic step: the       *)
(* interpreter lock and sqlite's serialized mode make each call atomic,    *)
(* and nothing in main.py makes a sequence of calls atomic.  Two calls     *)
(* that overlap inside one statement (sqlite3 then raises ProgrammingError *)
(* in one of them) are left out: they only add failing runs.  Exceptions   *)
(* raised inside the libraries (a network error of requests.get, a         *)
(* malformed JSON body) are not modelled: the collaborators answer with    *)
(* the data the handlers inspect.                                          *)
(***************************************************************************)
EXTENDS Integers, Sequences, FiniteSets, TLC

VARIABLES
    pc,      \* pc[t]: where worker thread t stands in its handler
    req,     \* req[t]: the request thread t is serving
    frame,   \* frame[t]: the handler's local variables
    res,     \* res[t]: the response of the request, once the handler ended
    cursor,  \* the shared cursor: the rows its last statement has left to fetch
    orders,  \* table orders as the shared connection sees it, in id order
    inTxn,   \* conn.in_transaction: an INSERT is not yet committed
    nreq     \* requests received so far

vars == <<pc, req, frame, res, cursor, orders, inTxn, nreq>>

-----------------------------------------------------------------------------
(* Bounds of the model *)

NThreads == 2
MaxRequests == 3
MaxSerialRequests == 4
MaxLen == 4

Threads == 1..NThreads

-----------------------------------------------------------------------------
(* Characters and strings *)

DigitChars == {"1"}
LowerChars == {"a"}
UpperChars == {"A"}
SpaceChars == {" ", "\n"}
Alphabet == DigitChars \cup LowerChars \cup UpperChars \cup SpaceChars \cup {"_"}

Strings(n) == UNION {[1..k -> Alphabet] : k \in 0..n}

\* str.lower() on one character
lower_char(c) == IF c = "A" THEN "a" ELSE c

\* str.lower()
lower(s) == [i \in 1..Len(s) |-> lower_char(s[i])]

\* The regular expression's character classes: \d, [a-zA-Z], \s and . (any
\* character but a newline)
re_digit == DigitChars
re_alpha == LowerChars \cup UpperChars
re_space == SpaceChars
re_dot == Alphabet \ {"\n"}

\* The end of the longest run of characters of class cls in s that starts at
\* i: the first position >= i whose character is not in the class.
RECURSIVE run_end(_, _, _)
run_end(s, i, cls) ==
    IF i <= Len(s) /\ s[i] \in cls THEN run_end(s, i + 1, cls) ELSE i

NoMatch == [matched |-> FALSE]

\* re.match(r"(\d+)[a-zA-Z]*\s+(.*)", s).  Every quantifier is greedy, and the
\* character after a greedy run is never in the run's class, so giving a
\* character back never turns a failure into a match: the greedy split is
\* the match.  match anchors at the start only; (.*) stops at a newline and
\* may be empty.
re_match(s) ==
    LET d == run_end(s, 1, re_digit)
        a == run_end(s, d, re_alpha)
        w == run_end(s, a, re_space)
        e == run_end(s, w, re_dot)
    IN  IF d = 1 \/ w = a
        THEN NoMatch
        ELSE [matched |-> TRUE,
              group1 |-> SubSeq(s, 1, d - 1),
              group2 |-> SubSeq(s, w, e - 1)]

\* sqlite's LIKE: % matches any run of characters, _ any one character, any
\* other character itself, ASCII letters without regard to case.  No ESCAPE
\* clause is given in the query.
RECURSIVE like(_, _)
like(text, pat) ==
    IF pat = <<>> THEN text = <<>>
    ELSE IF Head(pat) = "%"
         THEN like(text, Tail(pat)) \/ (text # <<>> /\ like(Tail(text), pat))
         ELSE /\ text # <<>>
              /\ Head(pat) = "_" \/ lower_char(Head(pat)) = lower_char(Head(text))
              /\ like(Tail(text), Tail(pat))

\* pattern = f"%{number}%{street}%"
pattern(number, street) == <<"%">> \o number \o <<"%">> \o street \o <<"%">>

\* SELECT COUNT(*) FROM orders WHERE zip = ? AND street LIKE ?
select_count(table, zip, pat) ==
    Cardinality({i \in 1..Len(table) :
                    table[i].zip = zip /\ like(table[i].street, pat)})

-----------------------------------------------------------------------------
(* Responses *)

NoResponse == [status |-> 0]

\* raise HTTPException(status_code, detail)
HTTPException(code, detail) == [status |-> code, detail |-> detail]

\* An exception no handler catches: the framework answers 500
Unhandled(what) == [status |-> 500, detail |-> "Internal Server Error", raised |-> what]

NoFrame == [handler |-> "none"]

-----------------------------------------------------------------------------
(* check_order_fraud *)

OrderSubmission(ids, streets, zips) ==
    [kind : {"order"}, order_id : ids, street : streets, zip : zips]

\* Lines 116-125: the request arrives, the street is matched.
order_start(t, order, limit) ==
    /\ pc[t] = "idle"
    /\ nreq < limit
    /\ nreq' = nreq + 1
    /\ req' = [req EXCEPT ![t] = order]
    /\ LET match == re_match(order.street)
       IN  IF ~match.matched
           THEN /\ res' = [res EXCEPT ![t] = HTTPException(400, "Invalid street format")]
                /\ frame' = [frame EXCEPT ![t] = [handler |-> "order", inserted |-> 0]]
                /\ pc' = [pc EXCEPT ![t] = "done"]
           ELSE /\ frame' = [frame EXCEPT ![t] =
                        [handler |-> "order",
                         number |-> match.group1,
                         street |-> lower(match.group2),
                         inserted |-> 0]]
                /\ pc' = [pc EXCEPT ![t] = "select"]
                /\ res' = res
    /\ UNCHANGED <<cursor, orders, inTxn>>

\* Lines 126-129: cursor.execute(SELECT COUNT(*) ...) on the shared cursor.
\* The statement replaces whatever the cursor held; its one row waits to be
\* fetched.  queried remembers what this call's own query counted.
order_select(t) ==
    /\ pc[t] = "select"
    /\ LET n == select_count(orders, req[t].zip,
                             pattern(frame[t].number, frame[t].street))
       IN  /\ cursor' = <<n>>
           /\ frame' = [frame EXCEPT ![t] =
                   [handler |-> "order", number |-> frame[t].number,
                    street |-> frame[t].street, inserted |-> 0, queried |-> n]]
    /\ pc' = [pc EXCEPT ![t] = "fetch"]
    /\ UNCHANGED <<req, res, orders, inTxn, nreq>>

\* Line 130: count = cursor.fetchone()[0].  fetchone returns the next row of
\* the cursor's last statement, whoever executed it, or None when no row is
\* left; None[0] raises TypeError, which no handler catches.
order_fetch(t) ==
    /\ pc[t] = "fetch"
    /\ IF cursor = <<>>
       THEN /\ res' = [res EXCEPT ![t] = Unhandled("TypeError")]
            /\ pc' = [pc EXCEPT ![t] = "done"]
            /\ UNCHANGED <<frame, cursor>>
       ELSE /\ frame' = [frame EXCEPT ![t] =
                    [handler |-> "order", number |-> frame[t].number,
                     street |-> frame[t].street, inserted |-> 0,
                     queried |-> frame[t].queried, count |-> Head(cursor)]]
            /\ cursor' = Tail(cursor)
            /\ pc' = [pc EXCEPT ![t] = "insert"]
            /\ res' = res
    /\ UNCHANGED <<req, orders, inTxn, nreq>>

\* Lines 133-135: cursor.execute(INSERT ...).  The row is visible to every
\* user of the connection at once; the statement leaves no row to fetch.
order_insert(t) ==
    /\ pc[t] = "insert"
    /\ orders' = Append(orders, [order_id |-> req[t].order_id,
                                 street |-> lower(req[t].street),
                                 zip |-> req[t].zip])
    /\ cursor' = <<>>
    /\ inTxn' = TRUE
    /\ frame' = [frame EXCEPT ![t].inserted = 1]
    /\ pc' = [pc EXCEPT ![t] = "commit"]
    /\ UNCHANGED <<req, res, nreq>>

\* Lines 136-142: conn.commit() and the response.
order_commit(t) ==
    /\ pc[t] = "commit"
    /\ inTxn' = FALSE
    /\ res' = [res EXCEPT ![t] =
            [status |-> 200,
             is_fraud |-> frame[t].count >= 3,
             matched_entries |-> frame[t].count,
             normalized_street |-> frame[t].number \o <<" ">> \o frame[t].street]]
    /\ pc' = [pc EXCEPT ![t] = "done"]
    /\ UNCHANGED <<req, frame, cursor, orders, nreq>>

check_order_fraud(t, orders_in, limit) ==
    \/ pc[t] = "idle" /\ \E order \in orders_in : order_start(t, order, limit)
    \/ order_select(t)
    \/ order_fetch(t)
    \/ order_insert(t)
    \/ order_commit(t)

\* The response is sent and the worker thread returns to the pool.
respond(t) ==
    /\ pc[t] = "done"
    /\ pc' = [pc EXCEPT ![t] = "idle"]
    /\ req' = [req EXCEPT ![t] = [kind |-> "none"]]
    /\ frame' = [frame EXCEPT ![t] = NoFrame]
    /\ res' = [res EXCEPT ![t] = NoResponse]
    /\ UNCHANGED <<cursor, orders, inTxn, nreq>>

-----------------------------------------------------------------------------
(* check_return *)

\* Distances are fixed-point numbers of DistUnit units to the mile, weights
\* in pounds and in ounces fixed-point numbers of LbUnit units to the pound
\* or the ounce: comparisons and the division by 16.0 are exact on them, as
\* they are on the floats of the code near the thresholds.
DistUnit == 1000
LbUnit == 2
DistSpan == 6
MaxExpectedLbs == 9
MaxScans == 2

\* An optional value (None, or a missing JSON key): <<>>, or <<v>>
Maybe(S) == {<<>>} \cup {<<v>> : v \in S}

SeqUpTo(S, n) == UNION {[1..k -> S] : k \in 0..n}

\* round(x, 2) of the number num/den, in hundredths: to the nearest, a tie
\* to the even neighbour
round2(num, den) ==
    LET q == (num * 100) \div den
        r == (num * 100) % den
    IN  IF 2 * r > den \/ (2 * r = den /\ q % 2 = 1) THEN q + 1 ELSE q

\* geodesic(a, b).miles, for two points of one meridian given by their
\* distance from a fixed point of it
geodesic(a, b) == IF a >= b THEN a - b ELSE b - a

\* distance_fraud decided on the displayed, rounded distance
distance_fraud_rounded(distance) == round2(distance, DistUnit) > 15 * 100

\* Line 81: distance_fraud = distance > 15
distance_fraud(distance) == distance > 15 * DistUnit

\* Line 88: return_weight_lbs = return_weight_oz / 16.0
return_weight_lbs(return_weight_oz) == return_weight_oz \div 16

\* The weight tiers with the boundaries 3 and 8 in the upper tier
weight_fraud_upper(correct_item_weight_lbs, return_lbs) ==
    IF correct_item_weight_lbs > 1 * LbUnit /\ correct_item_weight_lbs < 3 * LbUnit
    THEN return_lbs < 1 * LbUnit
    ELSE IF correct_item_weight_lbs >= 3 * LbUnit /\ correct_item_weight_lbs < 8 * LbUnit
         THEN correct_item_weight_lbs - return_lbs > 1 * LbUnit
         ELSE IF correct_item_weight_lbs >= 8 * LbUnit
              THEN correct_item_weight_lbs - return_lbs > 2 * LbUnit
              ELSE FALSE

\* Lines 89-99: the weight tiers
weight_fraud(correct_item_weight_lbs, return_lbs) ==
    IF correct_item_weight_lbs > 1 * LbUnit /\ correct_item_weight_lbs <= 3 * LbUnit
    THEN return_lbs < 1 * LbUnit
    ELSE IF correct_item_weight_lbs > 3 * LbUnit /\ correct_item_weight_lbs <= 8 * LbUnit
         THEN correct_item_weight_lbs - return_lbs > 1 * LbUnit
         ELSE IF correct_item_weight_lbs > 8 * LbUnit
              THEN correct_item_weight_lbs - return_lbs > 2 * LbUnit
              ELSE FALSE

\* is_fraud = distance_fraud and weight_fraud
is_fraud_both(distance_flag, weight_flag) == distance_flag /\ weight_flag

\* Line 101: is_fraud = distance_fraud or weight_fraud
is_fraud(distance_flag, weight_flag) == distance_flag \/ weight_flag

\* The last scan in place of the first
last_detail(tracking_details) == tracking_details[Len(tracking_details)]

\* Line 59: first_detail = tracker["tracking_details"][0]
first_detail(tracking_details) == tracking_details[1]

\* The handler without its check of the status code
tracking_error_any_status(response) ==
    IF response.tracker = <<>> \/ response.tracker[1].tracking_details = <<>>
    THEN <<HTTPException(404, "Tracking details not found")>>
    ELSE LET detail == response.tracker[1].tracking_details[1]
         IN  IF detail.city = "" \/ detail.zip = ""
             THEN <<HTTPException(400, "Incomplete drop-off location info")>>
             ELSE <<>>

\* Lines 51-64: what the handler makes of the tracking response: the error
\* it raises, if any
tracking_error(response) ==
    IF response.status_code # 200
    THEN <<HTTPException(500, "Error fetching tracking info from EasyPost")>>
    ELSE IF response.tracker = <<>> \/ response.tracker[1].tracking_details = <<>>
         THEN <<HTTPException(404, "Tracking details not found")>>
         ELSE LET detail == first_detail(response.tracker[1].tracking_details)
              IN  IF detail.city = "" \/ detail.zip = ""
                  THEN <<HTTPException(400, "Incomplete drop-off location info")>>
                  ELSE <<>>

\* Lines 46-64: the request arrives, the tracker is fetched, the drop-off
\* scan is selected.
return_fetch(t, data, response, limit) ==
    /\ pc[t] = "idle"
    /\ nreq < limit
    /\ nreq' = nreq + 1
    /\ req' = [req EXCEPT ![t] = data]
    /\ LET error == tracking_error(response)
       IN  IF error # <<>>
           THEN /\ res' = [res EXCEPT ![t] = error[1]]
                /\ frame' = [frame EXCEPT ![t] =
                        [handler |-> "return", response |-> response,
                         geocoded |-> <<>>]]
                /\ pc' = [pc EXCEPT ![t] = "done"]
           ELSE LET detail == first_detail(response.tracker[1].tracking_details)
                IN  /\ frame' = [frame EXCEPT ![t] =
                            [handler |-> "return", response |-> response,
                             geocoded |-> <<>>,
                             drop_off_city |-> detail.city,
                             drop_off_zip |-> detail.zip]]
                    /\ pc' = [pc EXCEPT ![t] = "geocode_ship"]
                    /\ res' = res
    /\ UNCHANGED <<cursor, orders, inTxn>>

\* Lines 67-74: geocode(city, zip), given the service's answer geo_data:
\* the coordinates, or nothing when it raises
geocode(geo_data) == IF geo_data.status # "OK" THEN <<>> ELSE <<geo_data.location>>

\* Line 76: ship_coords = geocode(data.shipping_address...).  geocoded logs
\* the answers of the geocoding service to this request.
return_geocode_ship(t, geo_data) ==
    /\ pc[t] = "geocode_ship"
    /\ IF geocode(geo_data) = <<>>
       THEN /\ res' = [res EXCEPT ![t] = HTTPException(400, "Geocoding failed")]
            /\ frame' = [frame EXCEPT ![t].geocoded = <<geo_data>>]
            /\ pc' = [pc EXCEPT ![t] = "done"]
       ELSE /\ frame' = [frame EXCEPT ![t] =
                    [handler |-> "return", response |-> frame[t].response,
                     geocoded |-> <<geo_data>>,
                     drop_off_city |-> frame[t].drop_off_city,
                     drop_off_zip |-> frame[t].drop_off_zip,
                     ship_coords |-> geocode(geo_data)[1]]]
            /\ pc' = [pc EXCEPT ![t] = "geocode_drop"]
            /\ res' = res
    /\ UNCHANGED <<req, cursor, orders, inTxn, nreq>>

\* Lines 80-113: the two heuristics and the response, once both addresses
\* are geocoded.  The constant "instruction" text is left out.
evaluate(data, tracker, drop_off_city, ship_coords, drop_coords) ==
    LET distance == geodesic(ship_coords, drop_coords)
        distance_flag == distance_fraud(distance)
    IN  IF tracker.weight = <<>>
        THEN HTTPException(400, "Return package weight not found")
        ELSE LET return_lbs == return_weight_lbs(tracker.weight[1])
                 weight_flag == weight_fraud(data.correct_item_weight_lbs, return_lbs)
             IN  [status |-> 200,
                  is_fraud |-> is_fraud(distance_flag, weight_flag),
                  distance_miles |-> round2(distance, DistUnit),
                  drop_off_city |-> drop_off_city,
                  shipping_city |-> data.shipping_address.city,
                  return_weight_lbs |-> round2(return_lbs, LbUnit),
                  expected_weight_lbs |-> data.correct_item_weight_lbs,
                  distance_flagged |-> distance_flag,
                  weight_flagged |-> weight_flag]

\* Lines 77-113: drop_coords = geocode(drop_off_city, drop_off_zip), then
\* the evaluation.
return_geocode_drop(t, geo_data) ==
    /\ pc[t] = "geocode_drop"
    /\ frame' = [frame EXCEPT ![t].geocoded = Append(@, geo_data)]
    /\ res' = [res EXCEPT ![t] =
            IF geocode(geo_data) = <<>>
            THEN HTTPException(400, "Geocoding failed")
            ELSE evaluate(req[t], frame[t].response.tracker[1],
                          frame[t].drop_off_city, frame[t].ship_coords,
                          geocode(geo_data)[1])]
    /\ pc' = [pc EXCEPT ![t] = "done"]
    /\ UNCHANGED <<req, cursor, orders, inTxn, nreq>>

check_return(t, datas, responses, ship_geo, drop_geo, limit) ==
    \/ /\ pc[t] = "idle"
       /\ \E data \in datas, response \in responses :
               return_fetch(t, data, response, limit)
    \/ /\ pc[t] = "geocode_ship"
       /\ \E geo_data \in ship_geo : return_geocode_ship(t, geo_data)
    \/ /\ pc[t] = "geocode_drop"
       /\ \E geo_data \in drop_geo : return_geocode_drop(t, geo_data)

-----------------------------------------------------------------------------
(* Specifications *)

\* Lines 9-27: the module is loaded, the table exists and is empty, the
\* CREATE TABLE statement left the cursor without rows.
Init ==
    /\ pc = [t \in Threads |-> "idle"]
    /\ req = [t \in Threads |-> [kind |-> "none"]]
    /\ frame = [t \in Threads |-> NoFrame]
    /\ res = [t \in Threads |-> NoResponse]
    /\ cursor = <<>>
    /\ orders = <<>>
    /\ inTxn = FALSE
    /\ nreq = 0

StreetPlain == <<"1", "A", " ", "a">>
StreetWild == <<"1", " ", "_">>
StreetBad == <<"a">>

OrderInputs ==
    OrderSubmission({"o1"}, {StreetPlain, StreetWild, StreetBad}, {"z1", "z2"})

\* The inputs of the concurrent specification: few, so that the
\* interleavings are explored in full
ReturnRequest(weights) ==
    [kind : {"return"},
     shipping_address : {[city |-> "austin", zip |-> "78701"]},
     correct_item_weight_lbs : weights]

Scan(city, zip) == [city |-> city, zip |-> zip]

Tracker(details, weights) == [tracking_details : details, weight : weights]

Response(codes, trackers) == [status_code : codes, tracker : trackers]

GeoFail == [status |-> "ZERO_RESULTS"]

GeoOK(points) == [status : {"OK"}, location : points]

FewResponses ==
    Response({200}, {<<>>}) \cup
    Response({200, 500},
             Maybe(Tracker({<<Scan("dallas", "75201")>>}, {<<>>, <<16 * 2 * LbUnit>>})))

Next ==
    \E t \in Threads :
        \/ check_order_fraud(t, OrderInputs, MaxRequests)
        \/ check_return(t, ReturnRequest({5 * LbUnit}), FewResponses,
                        {GeoFail} \cup GeoOK({0}),
                        {GeoFail} \cup GeoOK({20 * DistUnit}), MaxRequests)
        \/ respond(t)

Spec == Init /\ [][Next]_vars

\* One request at a time: a request is served only while every other worker
\* thread is idle
Quiet(t) == \A u \in Threads \ {t} : pc[u] = "idle"

NextSerial ==
    \E t \in Threads :
        \/ Quiet(t) /\ check_order_fraud(t, OrderInputs, MaxSerialRequests)
        \/ Quiet(t) /\ respond(t)

SpecSerial == Init /\ [][NextSerial]_vars

-----------------------------------------------------------------------------
(* The order checks *)

OrderDone(t) == pc[t] = "done" /\ req[t].kind = "order"

ValidStreet(t) == re_match(req[t].street).matched

\* C1: N concurrent order checks of one street and postal code, started on
\* an empty store, return the matchedEntries values 0, 1, ..., N-1, each
\* once, under every interleaving of their steps: no two of them return
\* the same count.
C1_DistinctCounts ==
    (/\ nreq = NThreads
     /\ \A t \in Threads : OrderDone(t) /\ res[t].status = 200
     /\ \A t, u \in Threads :
            req[t].street = req[u].street /\ req[t].zip = req[u].zip)
    => {res[t].matched_entries : t \in Threads} = 0..(NThreads - 1)

\* C2: the store changes only by the append of the one record of a
\* validated order check; every order check whose street passes the
\* normalization appends exactly one record, and every other request (an
\* order check that fails, any return check) appends none.
C2_StoreStep ==
    orders' # orders =>
        \E t \in Threads :
            /\ pc[t] = "insert" /\ pc'[t] = "commit"
            /\ req[t].kind = "order" /\ ValidStreet(t)
            /\ orders' = Append(orders, [order_id |-> req[t].order_id,
                                         street |-> lower(req[t].street),
                                         zip |-> req[t].zip])

C2_Appended ==
    \A t \in Threads :
        OrderDone(t) => frame[t].inserted = IF ValidStreet(t) THEN 1 ELSE 0

C2_AppendOnly == [](C2_Appended) /\ [][C2_StoreStep]_vars

\* text holds a and, after it, b as substrings
contains_in_order(text, a, b) ==
    \E i \in 1..(Len(text) + 1), j \in 1..(Len(text) + 1) :
        /\ i + Len(a) <= j
        /\ j + Len(b) <= Len(text) + 1
        /\ SubSeq(text, i, i + Len(a) - 1) = a
        /\ SubSeq(text, j, j + Len(b) - 1) = b

\* C3: in a serial execution an order check returns as matchedEntries the
\* number of records that were in the store before its own, have its postal
\* code and hold its houseNumber and then its streetName as substrings;
\* isFraud is matchedEntries >= 3.
C3_SubstringCount ==
    \A t \in Threads :
        (OrderDone(t) /\ res[t].status = 200) =>
            /\ res[t].matched_entries =
                   Cardinality({i \in 1..(Len(orders) - 1) :
                       /\ orders[i].zip = req[t].zip
                       /\ contains_in_order(orders[i].street,
                                            frame[t].number, frame[t].street)})
            /\ res[t].is_fraud = (res[t].matched_entries >= 3)

\* C10: in every interleaving, an order check with a valid street ends with
\* a result, and the matchedEntries it returns is what its own count query
\* counted.
C10_OwnCount ==
    \A t \in Threads :
        (OrderDone(t) /\ ValidStreet(t)) =>
            /\ res[t].status = 200
            /\ res[t].matched_entries = frame[t].queried

\* The shape the normalizer is specified to accept: digits, optional
\* letters, whitespace, then one or more remaining characters
spec_digits(s) == run_end(s, 1, re_digit)

spec_rest(s) == run_end(s, run_end(s, spec_digits(s), re_alpha), re_space)

spec_shape(s) ==
    /\ spec_digits(s) > 1
    /\ spec_rest(s) > run_end(s, spec_digits(s), re_alpha)
    /\ spec_rest(s) <= Len(s)

\* C8: the normalization succeeds exactly on digits, optional letters,
\* whitespace and one or more remaining characters; houseNumber is then the
\* leading digits and streetName the non-empty lowercased remainder; every
\* other input fails with InvalidAddressFormat.
C8_Normalize ==
    pc[1] # "idle" =>
        LET s == req[1].street
        IN  IF spec_shape(s)
            THEN /\ pc[1] = "select"
                 /\ frame[1].number = SubSeq(s, 1, spec_digits(s) - 1)
                 /\ frame[1].street # <<>>
                 /\ frame[1].street = lower(SubSeq(s, spec_rest(s), Len(s)))
            ELSE /\ pc[1] = "done"
                 /\ res[1] = HTTPException(400, "Invalid street format")

\* The return check alone, on expected and returned weights on both sides of
\* every tier, distances on both sides of the threshold, and scan histories
\* of up to MaxScans scans
ExpectedWeights == (-1)..(MaxExpectedLbs * LbUnit)

ReturnedOunces == {16 * k : k \in 0..((MaxExpectedLbs + 1) * LbUnit)}

Scans ==
    {Scan("dallas", "75201"), Scan("waco", "76701"),
     Scan("", "75201"), Scan("dallas", "")}

Responses ==
    Response({200, 500},
             Maybe(Tracker(SeqUpTo(Scans, MaxScans), Maybe(ReturnedOunces))))

Distances == (15 * DistUnit - DistSpan)..(15 * DistUnit + DistSpan)

NextReturn ==
    \/ check_return(1, ReturnRequest(ExpectedWeights), Responses,
                    {GeoFail} \cup GeoOK({0}),
                    {GeoFail} \cup GeoOK(Distances \cup {0}), 1)

SpecReturn == Init /\ [][NextReturn]_vars

-----------------------------------------------------------------------------
(* The return checks *)

ReturnDone(t) == pc[t] = "done" /\ req[t].kind = "return"

Evaluated(t) == ReturnDone(t) /\ res[t].status = 200

\* What the collaborators answered to the request of thread t
Details(t) == frame[t].response.tracker[1].tracking_details

ReturnedLbs(t) == frame[t].response.tracker[1].weight[1] \div 16

Distance(t) ==
    geodesic(frame[t].geocoded[1].location, frame[t].geocoded[2].location)

\* C4: weightFlagged follows the tier table: expected in (1,3]: returned
\* < 1; expected in (3,8]: expected - returned > 1; expected > 8: expected
\* - returned > 2; expected <= 1: never.  A returned weight of at least the
\* expected weight is never flagged.
C4_WeightTiers ==
    \A t \in Threads :
        Evaluated(t) =>
            LET e == req[t].correct_item_weight_lbs
                r == ReturnedLbs(t)
                lb == LbUnit
            IN  /\ (lb < e /\ e <= 3 * lb) => (res[t].weight_flagged <=> r < lb)
                /\ (3 * lb < e /\ e <= 8 * lb) => (res[t].weight_flagged <=> e - r > lb)
                /\ 8 * lb < e => (res[t].weight_flagged <=> e - r > 2 * lb)
                /\ e <= lb => ~res[t].weight_flagged
                /\ r >= e => ~res[t].weight_flagged

\* An expected weight of exactly 3 lb with 1.5 lb returned: the lower tier
\* leaves it unflagged, the tier above would flag it
C4_Witness ==
    \E t \in Threads :
        /\ Evaluated(t)
        /\ req[t].correct_item_weight_lbs = 3 * LbUnit
        /\ 2 * ReturnedLbs(t) = 3 * LbUnit
        /\ ~res[t].weight_flagged

UpstreamUnavailable == HTTPException(500, "Error fetching tracking info from EasyPost")
NotFound == HTTPException(404, "Tracking details not found")
IncompleteLocation == HTTPException(400, "Incomplete drop-off location info")
GeocodeFailure == HTTPException(400, "Geocoding failed")
MissingWeight == HTTPException(400, "Return package weight not found")

\* The error of the first failing step of the return check of thread t, and
\* the geocoding calls made by then; a response of status 200 when no step
\* fails
FirstFailure(t) ==
    LET r == frame[t].response
        g == frame[t].geocoded
    IN  IF r.status_code # 200 THEN <<UpstreamUnavailable, 0>>
        ELSE IF r.tracker = <<>> THEN <<NotFound, 0>>
        ELSE IF r.tracker[1].tracking_details = <<>> THEN <<NotFound, 0>>
        ELSE IF r.tracker[1].tracking_details[1].city = ""
                \/ r.tracker[1].tracking_details[1].zip = ""
             THEN <<IncompleteLocation, 0>>
        ELSE IF g[1].status # "OK" THEN <<GeocodeFailure, 1>>
        ELSE IF g[2].status # "OK" THEN <<GeocodeFailure, 2>>
        ELSE IF r.tracker[1].weight = <<>> THEN <<MissingWeight, 2>>
        ELSE <<[status |-> 200], 2>>

C6_FraudIsOr ==
    \A t \in Threads :
        Evaluated(t) =>
            res[t].is_fraud = (res[t].distance_flagged \/ res[t].weight_flagged)

\* One flag alone makes the verdict
C6_Witness ==
    \E t \in Threads :
        /\ Evaluated(t)
        /\ res[t].distance_flagged
        /\ ~res[t].weight_flagged
        /\ res[t].is_fraud

\* C7: distanceFlagged is true exactly when the unrounded distance is above
\* 15.0 miles: 15.0 itself is unflagged, the flag is monotonic in the
\* distance, and a distance above 15 that is displayed as 15.0 is flagged.
C7_DistanceThreshold ==
    /\ \A t \in Threads :
          Evaluated(t) =>
              /\ res[t].distance_flagged <=> Distance(t) > 15 * DistUnit
              /\ res[t].distance_miles = round2(Distance(t), DistUnit)
    /\ \A d1 \in Distances, d2 \in Distances :
          (d1 <= d2 /\ distance_fraud(d1)) => distance_fraud(d2)

\* A distance above 15 miles displayed as 15.0 and flagged
C7_Witness ==
    \E t \in Threads :
        /\ Evaluated(t)
        /\ Distance(t) > 15 * DistUnit
        /\ res[t].distance_miles = 15 * 100
        /\ res[t].distance_flagged

DropOffScanPolicy == {"FIRST", "LAST"}

select_scan(policy, details) ==
    IF policy = "FIRST" THEN details[1] ELSE details[Len(details)]

Selected(t) ==
    pc[t] \in {"geocode_ship", "geocode_drop"} \/ Evaluated(t)

\* C9 as stated: the drop-off location is the scan the configured
\* dropOffScanPolicy selects, the first for FIRST and the last for LAST.
C9_PolicySelects ==
    \A policy \in DropOffScanPolicy :
        \A t \in Threads :
            Selected(t) =>
                /\ frame[t].drop_off_city = select_scan(policy, Details(t)).city
                /\ frame[t].drop_off_zip = select_scan(policy, Details(t)).zip

\* C9, amended: the drop-off location of a return check is always the first
\* scan of the history, which is the location that is geocoded and the
\* dropOffCity of the evaluation, whatever the later scans are.
C9_FirstScan ==
    \A t \in Threads :
        Selected(t) =>
            /\ frame[t].drop_off_city = Details(t)[1].city
            /\ frame[t].drop_off_zip = Details(t)[1].zip
            /\ Evaluated(t) => res[t].drop_off_city = Details(t)[1].city

\* An evaluation of a history whose last scan is in another city
C9_Witness ==
    \E t \in Threads :
        /\ Evaluated(t)
        /\ Len(Details(t)) > 1
        /\ Details(t)[Len(Details(t))].city \notin {"", res[t].drop_off_city}

\* The normalizer alone, on every string of at most MaxLen characters
NormInputs == OrderSubmission({"o1"}, Strings(MaxLen), {"z1"})

NextNorm ==
    \/ pc[1] = "idle" /\ \E order \in NormInputs : order_start(1, order, 1)

SpecNorm == Init /\ [][NextNorm]_vars

====
